---- MODULE Spec2Model ----
(***************************************************************************)
(* Model of 06_gpu_and_ml/vllm_inference_swallow_13B.py: the image build   *)
(* that downloads the weights, the container lifecycle of the Model class  *)
(* (__enter__ loads the model), the generate method (format, one batched   *)
(* library call, print loop, summary) and the local entrypoint main.       *)
(***************************************************************************)
EXTENDS Integers, Sequences, FiniteSets, TLC

VARIABLES
    buildPc,        \* position of download_model_to_folder inside the image build
    modelDir,       \* content of MODEL_DIR: "absent", "empty" or "weights"
    downloads,      \* calls of snapshot_download made so far
    mainPc,         \* position of the local entrypoint main
    mainSent,       \* argument lists of the generate.remote calls main has made
    clientCalls,    \* invocations of Model.generate made by callers other than main
    request,        \* <<[from, qs]>> while an invocation is in flight, else <<>>
    container,      \* "none", "starting", "ready", "failed", "stopped"
    containerId,    \* number of container lifetimes started so far
    loads,          \* LLM(...) constructions in the current container lifetime
    llmSerial,      \* LLM objects constructed so far, over all lifetimes
    llm,            \* self.llm: serial of the loaded LLM object, 0 when unset
    template,       \* self.template
    served,         \* generate invocations started in the current container lifetime
    genPc,          \* position inside generate: idle, call, loop, done, failed
    genErr,         \* which statement of generate raised: none, call, index
    user_questions, \* argument of the running generate invocation
    prompts,        \* local prompts
    llmCalls,       \* <<llm, prompts>> of every self.llm.generate call of this invocation
    result,         \* local result
    idx,            \* position of the for loop in result (1-based)
    num_tokens,     \* local num_tokens
    out             \* lines printed by the running invocation, in order

vars == <<buildPc, modelDir, downloads, mainPc, mainSent, clientCalls, request,
          container, containerId, loads, llmSerial, llm, template, served,
          genPc, genErr, user_questions, prompts, llmCalls, result, idx,
          num_tokens, out>>

buildVars == <<buildPc, modelDir, downloads>>
callerVars == <<mainPc, mainSent, clientCalls>>
containerVars == <<container, containerId, loads, llmSerial, llm, template, served>>
frameVars == <<genPc, genErr, user_questions, prompts, llmCalls, result, idx,
               num_tokens, out>>

----------------------------------------------------------------------------
\* Bounds of the model.
MaxLen == 2          \* longest question list a caller other than main passes
MaxClientCalls == 2  \* invocations by callers other than main
MaxContainers == 2   \* container lifetimes

\* Question strings, completion texts and token-id sequences the model draws from.
QuestionPool == {"q1", "q2"}
Texts == {"t1", "t2"}
TokenIdSeqs == {<<>>, <<11>>, <<11, 12>>}

SeqsUpTo(S, n) == UNION {[1..k -> S] : k \in 0..n}

----------------------------------------------------------------------------
\* Program constants.

\* self.template, cut at its single slot: the text before {prompt}, the slot,
\* the text after it.
TemplateHead == "PREAMBLE\n\n### INSTRUCTION:\n"
Slot == "{prompt}"
TemplateTail == "\n\n### RESPONSE:\n"
Template == <<TemplateHead, Slot, TemplateTail>>

\* The hard-coded list of main (60 questions in the source, three here).
Questions == <<"q1", "q2", "q3">>

----------------------------------------------------------------------------
\* Pure functions.

\* Faulty variant of Format: the slot is left as it is.
FormatNoSubst(t, q) == t
\* str.format(prompt=q): every occurrence of the slot is replaced by q, the
\* rest of the template is kept; the substituted text is not scanned again.
Format(t, q) == [i \in 1..Len(t) |-> IF t[i] = Slot THEN q ELSE t[i]]

\* Faulty variant of FormatPrompts: the comprehension loses the first question.
FormatPromptsSkipFirst(t, qs) == [i \in 1..(Len(qs) - 1) |-> Format(t, qs[i + 1])]
\* Lines 96-98: [self.template.format(prompt=q) for q in user_questions]
FormatPrompts(t, qs) == [i \in 1..Len(qs) |-> Format(t, qs[i])]

\* The outputs field of one element of the library's result: normally one
\* completion (SamplingParams leaves n at 1), empty when the element is malformed.
CompletionLists ==
    {<<>>} \cup {<<[text |-> t, token_ids |-> ids]>> : t \in Texts, ids \in TokenIdSeqs}

\* self.llm.generate(prompts, sampling_params): one element per prompt, in the
\* order of the prompts, each carrying its prompt; what was generated is the
\* library's choice.
LLMGenerate(ps) ==
    {[i \in 1..Len(ps) |-> [prompt |-> ps[i], outputs |-> f[i]]] :
        f \in [1..Len(ps) -> CompletionLists]}

\* print(output.prompt, output.outputs[0].text, "\n\n", sep="")
ResultLine(output) == output.prompt \o <<output.outputs[1].text, "\n\n">>

\* print(f"Generated {num_tokens} tokens")
SummaryLine(n) == <<"Generated ", ToString(n), " tokens">>

----------------------------------------------------------------------------
Init ==
    /\ buildPc = "start"
    /\ modelDir = "absent"
    /\ downloads = 0
    /\ mainPc = "start"
    /\ mainSent = <<>>
    /\ clientCalls = 0
    /\ request = <<>>
    /\ container = "none"
    /\ containerId = 0
    /\ loads = 0
    /\ llmSerial = 0
    /\ llm = 0
    /\ template = <<>>
    /\ served = 0
    /\ genPc = "idle"
    /\ genErr = "none"
    /\ user_questions = <<>>
    /\ prompts = <<>>
    /\ llmCalls = <<>>
    /\ result = <<>>
    /\ idx = 0
    /\ num_tokens = 0
    /\ out = <<>>

----------------------------------------------------------------------------
\* Image build: run_function(download_model_to_folder).

\* os.makedirs(MODEL_DIR, exist_ok=True)
Makedirs ==
    /\ buildPc = "start"
    /\ buildPc' = "makedirs"
    /\ modelDir' = "empty"
    /\ UNCHANGED <<downloads, callerVars, request, containerVars, frameVars>>

\* snapshot_download(BASE_MODEL, local_dir=MODEL_DIR)
SnapshotDownload ==
    /\ buildPc = "makedirs"
    /\ buildPc' = "downloaded"
    /\ modelDir' = "weights"
    /\ downloads' = downloads + 1
    /\ UNCHANGED <<callerVars, request, containerVars, frameVars>>

\* move_cache(), after which the build step is finished and the image is sealed.
MoveCache ==
    /\ buildPc = "downloaded"
    /\ buildPc' = "built"
    /\ UNCHANGED <<modelDir, downloads, callerVars, request, containerVars, frameVars>>

\* A statement of download_model_to_folder raises: nothing in the function
\* catches it, the build step ends with the exception and no image exists.
\* The code: no handler in download_model_to_folder.
DownloadFails ==
    /\ buildPc \in {"start", "makedirs", "downloaded"}
    /\ buildPc' = "failed"
    /\ downloads' = IF buildPc = "makedirs" THEN downloads + 1 ELSE downloads
    /\ UNCHANGED <<modelDir, callerVars, request, containerVars, frameVars>>

----------------------------------------------------------------------------
\* Callers of the remote method.

\* main: model.generate.remote(questions), one blocking call with the list.
MainCall ==
    /\ buildPc = "built"
    /\ mainPc = "start"
    /\ request = <<>>
    /\ mainPc' = "waiting"
    /\ mainSent' = Append(mainSent, Questions)
    /\ request' = <<[from |-> "main", qs |-> Questions]>>
    /\ UNCHANGED <<buildVars, clientCalls, containerVars, frameVars>>

\* Any other invocation of the exposed method Model.generate, with any list.
ClientCall ==
    /\ buildPc = "built"
    /\ request = <<>>
    /\ clientCalls < MaxClientCalls
    /\ \E qs \in SeqsUpTo(QuestionPool, MaxLen) :
           request' = <<[from |-> "client", qs |-> qs]>>
    /\ clientCalls' = clientCalls + 1
    /\ UNCHANGED <<buildVars, mainPc, mainSent, containerVars, frameVars>>

\* The caller of the invocation in flight gets its outcome.
Answered(outcome) ==
    IF request # <<>> /\ request[1].from = "main" THEN outcome ELSE mainPc

----------------------------------------------------------------------------
\* Container lifecycle of the class Model.

\* A container of the built image starts for a waiting invocation.
ContainerStart ==
    /\ buildPc = "built"
    /\ request # <<>>
    /\ container \in {"none", "stopped", "failed"}
    /\ containerId < MaxContainers
    /\ container' = "starting"
    /\ containerId' = containerId + 1
    /\ loads' = 0
    /\ llm' = 0
    /\ template' = <<>>
    /\ served' = 0
    /\ UNCHANGED <<buildVars, callerVars, request, llmSerial, frameVars>>

\* Model.__enter__: self.llm = LLM(MODEL_DIR, ...); self.template = ...
\* Faulty variant: the container fetches the weights again when it starts.
EnterDownload ==
    /\ container = "starting"
    /\ modelDir = "weights"
    /\ downloads' = downloads + 1
    /\ loads' = loads + 1
    /\ llmSerial' = llmSerial + 1
    /\ llm' = llmSerial + 1
    /\ template' = Template
    /\ container' = "ready"
    /\ UNCHANGED <<buildPc, modelDir, callerVars, request, containerId, served, frameVars>>
\* The code, lines 79-90.
Enter ==
    /\ container = "starting"
    /\ modelDir = "weights"
    /\ loads' = loads + 1
    /\ llmSerial' = llmSerial + 1
    /\ llm' = llmSerial + 1
    /\ template' = Template
    /\ container' = "ready"
    /\ UNCHANGED <<buildVars, callerVars, request, containerId, served, frameVars>>

\* LLM(...) raises inside __enter__: nothing catches it, the container never
\* becomes ready and the waiting invocation ends with the exception.
EnterFails ==
    /\ container = "starting"
    /\ container' = "failed"
    /\ mainPc' = Answered("failed")
    /\ request' = <<>>
    /\ UNCHANGED <<buildVars, mainSent, clientCalls, containerId, loads, llmSerial,
                   llm, template, served, frameVars>>

\* An idle container is shut down.
ContainerStop ==
    /\ container = "ready"
    /\ genPc = "idle"
    /\ request = <<>>
    /\ container' = "stopped"
    /\ UNCHANGED <<buildVars, callerVars, request, containerId, loads, llmSerial,
                   llm, template, served, frameVars>>

----------------------------------------------------------------------------
\* Model.generate(user_questions), statement by statement.

\* Lines 96-98: the ready container takes the invocation and builds prompts.
GenerateFormat ==
    /\ container = "ready"
    /\ request # <<>>
    /\ genPc = "idle"
    /\ genPc' = "call"
    /\ genErr' = "none"
    /\ served' = served + 1
    /\ user_questions' = request[1].qs
    /\ prompts' = FormatPrompts(template, request[1].qs)
    /\ llmCalls' = <<>>
    /\ result' = <<>>
    /\ idx' = 0
    /\ out' = <<>>
    /\ UNCHANGED <<buildVars, callerVars, request, container, containerId, loads,
                   llmSerial, llm, template, num_tokens>>

\* Lines 100-107: result = self.llm.generate(prompts, sampling_params);
\* num_tokens = 0.
\* Faulty variant: generate constructs the LLM itself before calling it.
GenerateCallReload ==
    /\ genPc = "call"
    /\ \E r \in LLMGenerate(prompts) : result' = r
    /\ loads' = loads + 1
    /\ llmSerial' = llmSerial + 1
    /\ llm' = llmSerial + 1
    /\ llmCalls' = Append(llmCalls, <<llmSerial + 1, prompts>>)
    /\ num_tokens' = 0
    /\ idx' = 1
    /\ genPc' = "loop"
    /\ UNCHANGED <<buildVars, callerVars, request, container, containerId,
                   template, served, genErr, user_questions, prompts, out>>
\* Faulty variant: one library call per prompt instead of one for the list.
GenerateCallPerPrompt ==
    /\ genPc = "call"
    /\ \E r \in LLMGenerate(prompts) : result' = r
    /\ llmCalls' = [i \in 1..Len(prompts) |-> <<llm, <<prompts[i]>>>>]
    /\ num_tokens' = 0
    /\ idx' = 1
    /\ genPc' = "loop"
    /\ UNCHANGED <<buildVars, callerVars, request, containerVars, genErr,
                   user_questions, prompts, out>>
\* Faulty variant: num_tokens is not set to 0 after the call.
GenerateCallNoReset ==
    /\ genPc = "call"
    /\ \E r \in LLMGenerate(prompts) : result' = r
    /\ llmCalls' = Append(llmCalls, <<llm, prompts>>)
    /\ idx' = 1
    /\ genPc' = "loop"
    /\ UNCHANGED <<buildVars, callerVars, request, containerVars, genErr,
                   user_questions, prompts, num_tokens, out>>
\* The code, lines 100-107.
GenerateCall ==
    /\ genPc = "call"
    /\ \E r \in LLMGenerate(prompts) : result' = r
    /\ llmCalls' = Append(llmCalls, <<llm, prompts>>)
    /\ num_tokens' = 0
    /\ idx' = 1
    /\ genPc' = "loop"
    /\ UNCHANGED <<buildVars, callerVars, request, containerVars, genErr,
                   user_questions, prompts, out>>

\* Line 106 raises (out of memory, ...): generate has no handler, the
\* statements after the call are not run.
\* Faulty variant: the exception is caught and generate goes on with no result.
GenerateCallSwallowed ==
    /\ genPc = "call"
    /\ llmCalls' = Append(llmCalls, <<llm, prompts>>)
    /\ result' = <<>>
    /\ num_tokens' = 0
    /\ idx' = 1
    /\ genPc' = "loop"
    /\ genErr' = "call"
    /\ UNCHANGED <<buildVars, callerVars, request, containerVars,
                   user_questions, prompts, out>>
\* The code: no handler around line 106.
GenerateCallFails ==
    /\ genPc = "call"
    /\ llmCalls' = Append(llmCalls, <<llm, prompts>>)
    /\ genPc' = "failed"
    /\ genErr' = "call"
    /\ UNCHANGED <<buildVars, callerVars, request, containerVars,
                   user_questions, prompts, result, idx, num_tokens, out>>

\* Lines 108-110, one iteration: output.outputs[0] raises IndexError on an
\* element without completions, before anything of that element is printed.
\* Faulty variant: the newest line ends up before the earlier ones.
LoopBodyPrepend ==
    /\ genPc = "loop"
    /\ idx <= Len(result)
    /\ IF result[idx].outputs = <<>>
       THEN /\ genPc' = "failed"
            /\ genErr' = "index"
            /\ UNCHANGED <<idx, num_tokens, out>>
       ELSE /\ num_tokens' = num_tokens + Len(result[idx].outputs[1].token_ids)
            /\ out' = <<ResultLine(result[idx])>> \o out
            /\ idx' = idx + 1
            /\ UNCHANGED <<genPc, genErr>>
    /\ UNCHANGED <<buildVars, callerVars, request, containerVars,
                   user_questions, prompts, llmCalls, result>>
\* Faulty variant: an element without completions is skipped, the loop goes on.
LoopBodySkipMalformed ==
    /\ genPc = "loop"
    /\ idx <= Len(result)
    /\ IF result[idx].outputs = <<>>
       THEN /\ idx' = idx + 1
            /\ UNCHANGED <<genPc, genErr, num_tokens, out>>
       ELSE /\ num_tokens' = num_tokens + Len(result[idx].outputs[1].token_ids)
            /\ out' = Append(out, ResultLine(result[idx]))
            /\ idx' = idx + 1
            /\ UNCHANGED <<genPc, genErr>>
    /\ UNCHANGED <<buildVars, callerVars, request, containerVars,
                   user_questions, prompts, llmCalls, result>>
\* The code, lines 108-110.
LoopBody ==
    /\ genPc = "loop"
    /\ idx <= Len(result)
    /\ IF result[idx].outputs = <<>>
       THEN /\ genPc' = "failed"
            /\ genErr' = "index"
            /\ UNCHANGED <<idx, num_tokens, out>>
       ELSE /\ num_tokens' = num_tokens + Len(result[idx].outputs[1].token_ids)
            /\ out' = Append(out, ResultLine(result[idx]))
            /\ idx' = idx + 1
            /\ UNCHANGED <<genPc, genErr>>
    /\ UNCHANGED <<buildVars, callerVars, request, containerVars,
                   user_questions, prompts, llmCalls, result>>

\* Line 111, after the loop: print(f"Generated {num_tokens} tokens").
Summary ==
    /\ genPc = "loop"
    /\ idx > Len(result)
    /\ out' = Append(out, SummaryLine(num_tokens))
    /\ genPc' = "done"
    /\ UNCHANGED <<buildVars, callerVars, request, containerVars, genErr,
                   user_questions, prompts, llmCalls, result, idx, num_tokens>>

\* generate returns None: the caller's .remote() call returns, the frame goes.
GenerateReturn ==
    /\ genPc = "done"
    /\ mainPc' = Answered("done")
    /\ request' = <<>>
    /\ genPc' = "idle"
    /\ user_questions' = <<>>
    /\ prompts' = <<>>
    /\ llmCalls' = <<>>
    /\ result' = <<>>
    /\ idx' = 0
    /\ out' = <<>>
    /\ UNCHANGED <<buildVars, mainSent, clientCalls, containerVars, genErr, num_tokens>>

\* generate ends with the exception: the caller's .remote() call raises it.
GenerateRaise ==
    /\ genPc = "failed"
    /\ mainPc' = Answered("failed")
    /\ request' = <<>>
    /\ genPc' = "idle"
    /\ genErr' = "none"
    /\ user_questions' = <<>>
    /\ prompts' = <<>>
    /\ llmCalls' = <<>>
    /\ result' = <<>>
    /\ idx' = 0
    /\ out' = <<>>
    /\ UNCHANGED <<buildVars, mainSent, clientCalls, containerVars, num_tokens>>

----------------------------------------------------------------------------
Next ==
    \/ Makedirs
    \/ SnapshotDownload
    \/ MoveCache
    \/ DownloadFails
    \/ MainCall
    \/ ClientCall
    \/ ContainerStart
    \/ Enter
    \/ EnterFails
    \/ ContainerStop
    \/ GenerateFormat
    \/ GenerateCall
    \/ GenerateCallFails
    \/ LoopBody
    \/ Summary
    \/ GenerateReturn
    \/ GenerateRaise

Spec == Init /\ [][Next]_vars

----------------------------------------------------------------------------
\* Helpers of the properties.

IsSummary(line) == Len(line) = 3 /\ line[1] = "Generated "

\* What the print of line 110 writes for one well-formed element.
PrintedFor(output) == output.prompt \o <<output.outputs[1].text>> \o <<"\n\n">>

RECURSIVE SumTokenIds(_)
SumTokenIds(rs) ==
    IF rs = <<>> THEN 0
    ELSE Len(Head(rs).outputs[1].token_ids) + SumTokenIds(Tail(rs))

ResultLines == {i \in 1..Len(out) : ~IsSummary(out[i])}

\* Order of the statements of download_model_to_folder; a failed build is last.
BuildRank(pc) ==
    CASE pc = "start" -> 0
      [] pc = "makedirs" -> 1
      [] pc = "downloaded" -> 2
      [] pc = "built" -> 3
      [] pc = "failed" -> 4

----------------------------------------------------------------------------
\* C1: an invocation of generate that runs to its end has printed exactly one
\* prompt+completion entry per input question, the i-th entry starting with
\* the prompt of the i-th question, whatever the length of the list; and no
\* invocation ever prints more entries than it was given questions.
C1_OnePrintPerQuestion ==
    /\ Cardinality(ResultLines) <= Len(user_questions)
    /\ genPc = "done" =>
          /\ Cardinality(ResultLines) = Len(user_questions)
          /\ \A i \in 1..Len(user_questions) :
                /\ i \in ResultLines
                /\ SubSeq(out[i], 1, 3) = <<TemplateHead, user_questions[i], TemplateTail>>

C1_Witness ==
    /\ genPc = "done"
    /\ Len(user_questions) = 3
    /\ Cardinality(ResultLines) = 3

\* C2: in one container lifetime the model is loaded exactly once, by
\* __enter__ while the container starts and before any generate invocation of
\* that container; every library call of every invocation uses that same
\* loaded model, and nothing loads it again during the lifetime.
C2_LoadedOncePerLifetime ==
    /\ [](container = "ready" => loads = 1 /\ llm # 0)
    /\ [](served > 0 => loads = 1)
    /\ [](\A c \in 1..Len(llmCalls) : llmCalls[c][1] = llm /\ llm # 0)
    /\ [][loads' # loads =>
            \/ containerId' = containerId + 1 /\ loads' = 0
            \/ /\ container = "starting" /\ served = 0 /\ genPc = "idle"
               /\ loads = 0 /\ loads' = 1]_vars
    /\ [][containerId' = containerId /\ llm # 0 => llm' = llm]_vars

C2_Witness ==
    /\ containerId = 2
    /\ served = 2
    /\ genPc = "loop"
    /\ loads = 1
    /\ Len(llmCalls) = 1

\* C3: the weights are downloaded only by the image build, at most once and
\* before any container has started; once a container has started the image
\* is built with the weights in MODEL_DIR, and neither __enter__ nor generate
\* downloads again or changes MODEL_DIR.
C3_DownloadOnlyAtBuild ==
    /\ [](downloads <= 1)
    /\ [](containerId > 0 => buildPc = "built" /\ downloads = 1 /\ modelDir = "weights")
    /\ [][downloads' # downloads =>
            buildPc = "makedirs" /\ containerId = 0 /\ container = "none"]_vars
    /\ [][containerId > 0 => modelDir' = modelDir /\ downloads' = downloads]_vars

C3_Witness ==
    /\ containerId = 2
    /\ container = "ready"
    /\ genPc = "done"
    /\ downloads = 1

\* C4: a failure of the download, of the load or of the generation call is
\* never caught: the failed step is not run again, no later step of the path
\* runs (no container and no load after a failed build, no generate after a
\* failed load, nothing printed after a failed generation call), and the
\* caller of a failed invocation gets the failure, never a normal return.
C4_FailuresPropagate ==
    /\ [](buildPc = "failed" =>
            containerId = 0 /\ llmSerial = 0 /\ mainPc = "start" /\ request = <<>>)
    /\ [][buildPc = "failed" => buildPc' = "failed" /\ downloads' = downloads]_vars
    /\ [][BuildRank(buildPc') >= BuildRank(buildPc)]_vars
    /\ [](container = "failed" => loads = 0 /\ served = 0 /\ genPc = "idle")
    /\ [][container = "starting" /\ container' = "failed" =>
            /\ request' = <<>>
            /\ request[1].from = "main" => mainPc' = "failed"]_vars
    /\ [][container = "failed" /\ containerId' = containerId =>
            container' = "failed" /\ loads' = 0 /\ llm' = llm]_vars
    /\ [](genErr # "none" => genPc = "failed")
    /\ [](genPc = "failed" /\ genErr = "call" => out = <<>> /\ Len(llmCalls) = 1)
    /\ [][genPc = "failed" =>
            \/ genPc' = "failed" /\ out' = out /\ llmCalls' = llmCalls
            \/ /\ genPc' = "idle" /\ request' = <<>>
               /\ request[1].from = "main" => mainPc' = "failed"]_vars
    /\ [][mainPc # "done" /\ mainPc' = "done" => genPc = "done"]_vars

C4_Witness ==
    /\ containerId = 2
    /\ genPc = "failed"
    /\ genErr = "call"
    /\ request # <<>>
    /\ request[1].from = "main"
    /\ clientCalls = 1

\* C5: main invokes the remote generate once per question of its list, one
\* invocation after another (each invocation carrying one question).
C5_InvokedOncePerQuestion ==
    mainPc = "done" =>
        /\ Len(mainSent) = Len(Questions)
        /\ \A i \in 1..Len(Questions) : mainSent[i] = <<Questions[i]>>

\* C6: one run of main makes exactly one remote invocation, carrying the whole
\* hard-coded list; an invocation makes exactly one library call, with all its
\* prompts together, and after it one pass of the print loop over the result.
C6_OneInvocationOneBatchedCall ==
    /\ Len(mainSent) <= 1
    /\ mainPc # "start" => mainSent = <<Questions>>
    /\ Len(llmCalls) <= 1
    /\ genPc \in {"loop", "done"} =>
          /\ Len(llmCalls) = 1
          /\ llmCalls[1][2] = prompts
          /\ Len(prompts) = Len(user_questions)
    /\ genPc = "loop" => Len(out) = idx - 1
    /\ genPc = "done" => idx = Len(result) + 1 /\ Len(out) = Len(result) + 1

C6_Witness ==
    /\ genPc = "done"
    /\ request # <<>>
    /\ request[1].from = "main"
    /\ user_questions = Questions
    /\ Len(llmCalls) = 1
    /\ Len(llmCalls[1][2]) = 3

\* C7: the prompts handed to the library have the length and order of
\* user_questions, the i-th being the template with the i-th question in its
\* single slot; the template is the same in every ready container.
C7_PromptsFollowTemplate ==
    /\ container = "ready" => template = <<TemplateHead, "{prompt}", TemplateTail>>
    /\ \A c \in 1..Len(llmCalls) :
          /\ Len(llmCalls[c][2]) = Len(user_questions)
          /\ \A i \in 1..Len(user_questions) :
                llmCalls[c][2][i] = <<TemplateHead, user_questions[i], TemplateTail>>

C7_Witness ==
    /\ Len(llmCalls) = 1
    /\ Len(user_questions) = 2
    /\ user_questions[1] # user_questions[2]
    /\ served = 2

\* C8: the number in the final "Generated N tokens" line is the sum, over all
\* elements of the returned result, of the number of token ids of the first
\* completion; the count starts at 0 in every invocation (during the loop it
\* is the sum over the elements already passed), whatever earlier invocations
\* counted.
C8_TokenTotalIsSum ==
    /\ genPc = "loop" => num_tokens = SumTokenIds(SubSeq(result, 1, idx - 1))
    /\ genPc = "done" =>
          out[Len(out)] = <<"Generated ", ToString(SumTokenIds(result)), " tokens">>

C8_Witness ==
    /\ genPc = "done"
    /\ served = 2
    /\ Len(result) = 2
    /\ SumTokenIds(result) = 3
    /\ out[Len(out)] = <<"Generated ", "3", " tokens">>

\* C9: in a successful invocation the summary line is printed exactly once and
\* last, after one line per element of the result in the order of the result;
\* before the end no summary line has been printed; for an empty question list
\* the only line is the summary, reporting 0 tokens.
C9_SummaryOnceAfterResults ==
    /\ genPc # "done" => \A i \in 1..Len(out) : ~IsSummary(out[i])
    /\ genPc = "done" =>
          /\ Len(out) = Len(result) + 1
          /\ \A i \in 1..Len(result) : out[i] = PrintedFor(result[i])
          /\ IsSummary(out[Len(out)])
          /\ user_questions = <<>> => out = << <<"Generated ", "0", " tokens">> >>

C9_Witness ==
    /\ genPc = "done"
    /\ Len(result) = 2
    /\ PrintedFor(result[1]) # PrintedFor(result[2])
    /\ Len(out) = 3

\* C10: the loop never passes an element without a first completion: it fails
\* at the first such element, the k-th, with exactly the k-1 earlier results
\* printed; from then on the invocation prints nothing more (no later result,
\* no summary) until it ends with the failure.
C10_MalformedStopsLoop ==
    /\ [](genPc \in {"loop", "done"} =>
            \A i \in 1..(idx - 1) : result[i].outputs # <<>>)
    /\ [](genPc = "failed" /\ genErr = "index" =>
            /\ idx \in 1..Len(result)
            /\ result[idx].outputs = <<>>
            /\ Len(out) = idx - 1
            /\ \A i \in 1..(idx - 1) :
                  result[i].outputs # <<>> /\ out[i] = PrintedFor(result[i]))
    /\ [][genPc = "loop" /\ idx <= Len(result) /\ result[idx].outputs = <<>> =>
            genPc' = "failed" /\ out' = out]_vars
    /\ [][genPc = "failed" => out' = out \/ genPc' = "idle"]_vars
    /\ [][genPc = "failed" => genPc' \in {"failed", "idle"}]_vars

C10_Witness ==
    /\ genPc = "failed"
    /\ genErr = "index"
    /\ idx = 2
    /\ Len(result) = 3
    /\ Len(out) = 1
    /\ result[3].outputs # <<>>

====
